---- MODULE Spec2Model ----
(***************************************************************************)
(* Model of the two wrapper scripts of copyright-detector-music-backend:   *)
(*   src/python/search_wrapper.py     (similarity search + risk levels)    *)
(*   src/python/embedding_wrapper.py  (embedding extraction)               *)
(*                                                                         *)
(* Floating point numbers are records [nan, v]: v counts hundredths        *)
(* (0.95 is 95), nan marks Python's float("nan"), on which every ordered   *)
(* comparison is false.                                                    *)
(***************************************************************************)
EXTENDS Integers, Sequences, FiniteSets, TLC

VARIABLES r_threshold, r_cur, r_prev

\* search_wrapper.py, one run of the script per query
VARIABLES imported,             \* the imports of lines 23-26 succeeded
          argv,                 \* sys.argv: argc and the argument texts
          index_exists,         \* os.path.exists(index_path)
          index_at_start,       \* index_exists when the run started
          index_written,        \* save_index wrote index_path in this run
          pc,                   \* position of the run
          top_k,                \* main's top_k once parsed
          similarity_threshold, \* main's similarity_threshold once parsed
          raised,               \* the exception unwinding main's try block
          result,               \* <<r>>: search_similar_tracks returned r
          stdout,               \* the result objects printed so far
          exit_code,            \* "running", "0" or "1"
          searcher_calls,       \* the calls made on the vector-search module
          completed,            \* the successful results printed by earlier runs
          queries               \* the number of runs started

\* embedding_wrapper.py, one run of the script
VARIABLES e_argv,        \* sys.argv: argc and the model name given
          e_file_exists, \* os.path.exists(audio_path)
          e_env,         \* what the imported modules do with the file
          e_pc,          \* position of the run
          e_model_name,  \* main's model_name
          e_duration,    \* extract_embeddings' duration
          e_sr,          \* extract_embeddings' sr
          e_result,      \* <<r>>: extract_embeddings returned r
          e_stdout,      \* the result objects printed so far
          e_exit_code,   \* "running", "0" or "1"
          e_calls        \* the calls made on the imported modules

rvars == <<r_threshold, r_cur, r_prev>>

evars == <<e_argv, e_file_exists, e_env, e_pc, e_model_name, e_duration, e_sr,
           e_result, e_stdout, e_exit_code, e_calls>>

svars == <<imported, argv, index_exists, index_at_start, index_written, pc, top_k,
           similarity_threshold, raised, result, stdout, exit_code,
           searcher_calls, completed, queries>>

vars == <<rvars, svars, evars>>

(***************************************************************************)
(* Floats                                                                  *)
(***************************************************************************)
F(x) == [nan |-> FALSE, v |-> x]

NaN == [nan |-> TRUE, v |-> 0]

\* Python's >= on floats: false as soon as one side is nan.
FGe(a, b) == ~a.nan /\ ~b.nan /\ a.v >= b.v

\* Python's < on floats.
FLt(a, b) == ~a.nan /\ ~b.nan /\ a.v < b.v

\* Python's > on floats.
FGt(a, b) == ~a.nan /\ ~b.nan /\ a.v > b.v

(***************************************************************************)
(* calculate_track_risk (search_wrapper.py:156-167)                        *)
(***************************************************************************)
VeryHighCut == 95

HighCut == 85

LowCut == 50

\* A slip in the first band: > where the code has >=.
calculate_track_risk_strict(similarity_score, threshold) ==
    IF FGt(similarity_score, F(VeryHighCut)) THEN "VERY_HIGH"
    ELSE IF FGe(similarity_score, F(HighCut)) THEN "HIGH"
    ELSE IF FGe(similarity_score, threshold) THEN "MEDIUM"
    ELSE IF FGe(similarity_score, F(LowCut)) THEN "LOW"
    ELSE "VERY_LOW"

\* A slip in the order of the branches: the threshold tested before 0.85.
calculate_track_risk_reordered(similarity_score, threshold) ==
    IF FGe(similarity_score, F(VeryHighCut)) THEN "VERY_HIGH"
    ELSE IF FGe(similarity_score, threshold) THEN "MEDIUM"
    ELSE IF FGe(similarity_score, F(HighCut)) THEN "HIGH"
    ELSE IF FGe(similarity_score, F(LowCut)) THEN "LOW"
    ELSE "VERY_LOW"

calculate_track_risk(similarity_score, threshold) ==
    IF FGe(similarity_score, F(VeryHighCut)) THEN "VERY_HIGH"
    ELSE IF FGe(similarity_score, F(HighCut)) THEN "HIGH"
    ELSE IF FGe(similarity_score, threshold) THEN "MEDIUM"
    ELSE IF FGe(similarity_score, F(LowCut)) THEN "LOW"
    ELSE "VERY_LOW"

\* The order VERY_LOW < LOW < MEDIUM < HIGH < VERY_HIGH of the levels.
Rank(level) ==
    CASE level = "VERY_LOW" -> 0
      [] level = "LOW" -> 1
      [] level = "MEDIUM" -> 2
      [] level = "HIGH" -> 3
      [] level = "VERY_HIGH" -> 4

(***************************************************************************)
(* RiskSpec: calculate_track_risk applied, as in the loop of               *)
(* search_similar_tracks (lines 106-118), to one score after the other     *)
(* under one threshold.  r_cur is the track classified last, r_prev the    *)
(* one before it; a run classifies a pair of tracks.                       *)
(***************************************************************************)
MinThreshold == 0

MaxThreshold == 100

\* How far beyond [0, 1] the enumerated scores reach, in hundredths.
ScoreMargin == 3

RiskThresholds == MinThreshold..MaxThreshold

RiskScores ==
    {F(s) : s \in (MinThreshold - ScoreMargin)..(MaxThreshold + ScoreMargin)}
        \cup {NaN}

NoTrack == [set |-> FALSE, similarityScore |-> F(0), copyrightRisk |-> "NONE"]

RiskStart ==
    /\ r_threshold \in {F(t) : t \in RiskThresholds}
    /\ r_cur = NoTrack
    /\ r_prev = NoTrack

RiskIdle ==
    /\ r_threshold = F(MinThreshold)
    /\ r_cur = NoTrack
    /\ r_prev = NoTrack

ClassifyTrack(score) ==
    /\ ~r_prev.set
    /\ r_cur' = [set |-> TRUE,
                 similarityScore |-> score,
                 copyrightRisk |-> calculate_track_risk(score, r_threshold)]
    /\ r_prev' = r_cur
    /\ UNCHANGED <<r_threshold, svars, evars>>

RiskNext == \E score \in RiskScores : ClassifyTrack(score)

(***************************************************************************)
(* search_wrapper.py: the command line                                     *)
(***************************************************************************)
\* Argument texts.  IntText(n) is the text of the integer n, NumText(h) the text of
\* a decimal number of h hundredths, NanText is "nan", Text is "abc".
Absent == [kind |-> "absent", v |-> 0]

IntText(n) == [kind |-> "int", v |-> n]

NumText(h) == [kind |-> "num", v |-> h]

NanText == [kind |-> "nan", v |-> 0]

Text == [kind |-> "text", v |-> 0]

MinArgc == 3

DefaultTopK == 10

DefaultThreshold == 80

MaxTopK == 100

\* int(text): ValueError unless the text is an integer literal.
PyInt(tok) == [ok |-> tok.kind = "int", v |-> tok.v]

\* float(text): integer and decimal literals, and "nan"; ValueError otherwise.
PyFloat(tok) ==
    CASE tok.kind = "num" -> [ok |-> TRUE, v |-> F(tok.v)]
      [] tok.kind = "int" -> [ok |-> TRUE, v |-> F(tok.v * 100)]
      [] tok.kind = "nan" -> [ok |-> TRUE, v |-> NaN]
      [] OTHER -> [ok |-> FALSE, v |-> F(0)]

\* json.loads followed by np.array(..., dtype=np.float32) on the embedding
\* text: what it raises, or "ok".
json_loads_np_array(text) ==
    CASE text = "[0.1, 0.2]" -> "ok"
      [] text = "[0.1," -> "JSONDecodeError"
      [] text = "[[1], [2, 3]]" -> "ValueError"
      [] text = "{}" -> "TypeError"
      [] OTHER -> "JSONDecodeError"

EmbeddingArgs == {"[0.1, 0.2]", "[0.1,", "[[1], [2, 3]]", "{}"}

TopKArgs == {Text, IntText(0), IntText(1), IntText(MaxTopK), IntText(MaxTopK + 1)}

ThresholdArgs ==
    {Text, NanText, NumText(MinThreshold - 1), NumText(MinThreshold),
     NumText(DefaultThreshold), NumText(MaxThreshold), NumText(MaxThreshold + 1)}

Argvs ==
    {[argc |-> n, embedding |-> "", top_k |-> Absent, threshold |-> Absent] :
        n \in 1..(MinArgc - 1)}
    \cup {[argc |-> MinArgc, embedding |-> e, top_k |-> Absent,
           threshold |-> Absent] : e \in EmbeddingArgs}
    \cup {[argc |-> MinArgc + 1, embedding |-> e, top_k |-> k,
           threshold |-> Absent] : e \in EmbeddingArgs, k \in TopKArgs}
    \cup {[argc |-> MinArgc + 2, embedding |-> e, top_k |-> k,
           threshold |-> t] :
              e \in EmbeddingArgs, k \in TopKArgs, t \in ThresholdArgs}

(***************************************************************************)
(* Result objects                                                          *)
(***************************************************************************)
UsageError == "Usage: python search_wrapper.py <embedding_json> <index_path> [top_k] [similarity_threshold]"

TopKError == "top_k must be between 1 and 100"

ThresholdError == "similarity_threshold must be between 0.0 and 1.0"

InvalidEmbedding == "Invalid embedding data"

IndexNotFound == "Index file not found"

LoadFailed == "Failed to load search index"

SearchFailed == "Search operation failed"

UnexpectedSearchError == "Unexpected error during search"

UnexpectedError == "Unexpected error"

ImportFailed == "Failed to import vector search modules"

\* 'error': None of a successful result
NoError == "None"

\* A failure result that keeps the default of the success path for the risk.
FailureResult_default_risk(error) ==
    [success |-> FALSE, error |-> error, similarTracks |-> <<>>,
     copyrightRisk |-> "LOW", riskScore |-> F(0), totalMatches |-> 0,
     processingTimeMs |-> 0]

\* The dict every failure path builds; only the error text differs.
FailureResult(error) ==
    [success |-> FALSE, error |-> error, similarTracks |-> <<>>,
     copyrightRisk |-> "UNKNOWN", riskScore |-> F(0), totalMatches |-> 0,
     processingTimeMs |-> 0]

\* `except Exception` catches every exception but SystemExit.
Catches_bare(exc) == exc # "none"

Catches(exc) == exc \notin {"none", "SystemExit"}

(***************************************************************************)
(* The vector-search module (SimilaritySearcher, CopyrightDetector,        *)
(* VectorIndexer): another repository.  What it returns or raises is       *)
(* chosen by the environment.                                              *)
(***************************************************************************)
\* The most records search_similar returns in the model.
MaxResults == 2

\* The runs of the script in RepeatSpec.
MaxQueries == 2

\* A record of search_similar: good = FALSE is a record whose
\* similarity_score is no number (float() raises TypeError); has_score =
\* FALSE is a record without the key (result.get gives 0.0).
RawResults ==
    {[good |-> TRUE, has_score |-> TRUE, similarity_score |-> F(82), year |-> "2020"],
     [good |-> TRUE, has_score |-> TRUE, similarity_score |-> F(97), year |-> "None"],
     [good |-> TRUE, has_score |-> FALSE, similarity_score |-> F(0), year |-> "None"],
     [good |-> TRUE, has_score |-> TRUE, similarity_score |-> F(97),
      year |-> "numpy.int64(2020)"],
     [good |-> FALSE, has_score |-> TRUE, similarity_score |-> F(0), year |-> "None"]}

Min(a, b) == IF a < b THEN a ELSE b

\* search_similar(query_embedding, k): at most k records, or an exception.
SearchOutcomes(k) ==
    {[raises |-> TRUE, results |-> <<>>]}
    \cup {[raises |-> FALSE, results |-> rs] :
            rs \in UNION {[1..n -> RawResults] : n \in 0..Min(k, MaxResults)}}

\* analyze_embedding(query_embedding): a dict with or without the two keys,
\* one whose risk_score is no number, or an exception.
AnalysisOutcomes ==
    {[raises |-> TRUE, has_keys |-> FALSE, good |-> TRUE,
      overall_risk |-> "LOW", risk_score |-> F(0)],
     [raises |-> FALSE, has_keys |-> TRUE, good |-> TRUE,
      overall_risk |-> "HIGH", risk_score |-> F(90)],
     [raises |-> FALSE, has_keys |-> FALSE, good |-> TRUE,
      overall_risk |-> "LOW", risk_score |-> F(0)],
     [raises |-> FALSE, has_keys |-> TRUE, good |-> FALSE,
      overall_risk |-> "HIGH", risk_score |-> F(0)]}

\* One iteration of the loop over similar_results (lines 106-118).
similar_track(raw, threshold) ==
    [similarityScore |-> IF raw.has_score THEN raw.similarity_score ELSE F(0),
     copyrightRisk |->
        calculate_track_risk(
            IF raw.has_score THEN raw.similarity_score ELSE F(0), threshold),
     year |-> raw.year]

\* json.dumps(result): TypeError on a value that is no JSON type.
Serializable(r) ==
    \A i \in 1..Len(r.similarTracks) :
        r.similarTracks[i].year # "numpy.int64(2020)"

Call(op) ==
    [op |-> op, top_k |-> top_k, similarity_threshold |-> similarity_threshold]

(***************************************************************************)
(* search_wrapper.py: main and search_similar_tracks, step by step         *)
(***************************************************************************)
notSearch == <<rvars, evars>>

SearchStart ==
    /\ imported = FALSE
    /\ argv \in Argvs
    /\ index_exists \in BOOLEAN
    /\ index_at_start = index_exists
    /\ index_written = FALSE
    /\ pc = "import"
    /\ top_k = 0
    /\ similarity_threshold = F(0)
    /\ raised = "none"
    /\ result = <<>>
    /\ stdout = <<>>
    /\ exit_code = "running"
    /\ searcher_calls = <<>>
    /\ completed = {}
    /\ queries = 1

\* Lines 23-38: the imports of the vector-search module; on ImportError the
\* script prints a failure result and exits before main is defined.
ImportModules ==
    /\ pc = "import"
    /\ \E found \in BOOLEAN :
          IF found
          THEN /\ imported' = TRUE
               /\ pc' = "main"
               /\ UNCHANGED <<stdout, exit_code>>
          ELSE /\ stdout' = Append(stdout, FailureResult(ImportFailed))
               /\ pc' = "exited"
               /\ exit_code' = "1"
               /\ UNCHANGED imported
    /\ UNCHANGED <<argv, index_exists, index_at_start, index_written, top_k,
                   similarity_threshold, raised, result, searcher_calls,
                   completed, queries, notSearch>>

\* main, lines 209-219: the usage check.
MainCheckArgs ==
    /\ pc = "main"
    /\ IF argv.argc < MinArgc
       THEN /\ stdout' = Append(stdout, FailureResult(UsageError))
            /\ raised' = "SystemExit"
            /\ pc' = "unwind"
       ELSE /\ pc' = "parse_args"
            /\ UNCHANGED <<stdout, raised>>
    /\ UNCHANGED <<imported, argv, index_exists, index_at_start, index_written, top_k,
                   similarity_threshold, result, exit_code, searcher_calls,
                   completed, queries, notSearch>>

\* main, lines 221-224: int(sys.argv[3]) and float(sys.argv[4]).
MainParseArgs ==
    /\ pc = "parse_args"
    /\ LET k == IF argv.argc > MinArgc THEN PyInt(argv.top_k)
                ELSE [ok |-> TRUE, v |-> DefaultTopK]
           t == IF argv.argc > MinArgc + 1 THEN PyFloat(argv.threshold)
                ELSE [ok |-> TRUE, v |-> F(DefaultThreshold)]
       IN  /\ top_k' = IF k.ok THEN k.v ELSE top_k
           /\ similarity_threshold' =
                 IF k.ok /\ t.ok THEN t.v ELSE similarity_threshold
           /\ IF k.ok /\ t.ok
              THEN pc' = "validate_top_k" /\ UNCHANGED raised
              ELSE pc' = "unwind" /\ raised' = "ValueError"
    /\ UNCHANGED <<imported, argv, index_exists, index_at_start, index_written, result,
                   stdout, exit_code, searcher_calls, completed, queries,
                   notSearch>>

\* main, lines 227-237, without the range check.
MainValidateTopK_unchecked ==
    /\ pc = "validate_top_k"
    /\ pc' = "validate_threshold"
    /\ UNCHANGED <<imported, argv, index_exists, index_at_start, index_written, top_k,
                   similarity_threshold, raised, result, stdout, exit_code,
                   searcher_calls, completed, queries, notSearch>>

\* main, lines 227-237.
MainValidateTopK ==
    /\ pc = "validate_top_k"
    /\ IF top_k <= 0 \/ top_k > MaxTopK
       THEN /\ stdout' = Append(stdout, FailureResult(TopKError))
            /\ raised' = "SystemExit"
            /\ pc' = "unwind"
       ELSE /\ pc' = "validate_threshold"
            /\ UNCHANGED <<stdout, raised>>
    /\ UNCHANGED <<imported, argv, index_exists, index_at_start, index_written, top_k,
                   similarity_threshold, result, exit_code, searcher_calls,
                   completed, queries, notSearch>>

\* main, lines 239-249.
MainValidateThreshold ==
    /\ pc = "validate_threshold"
    /\ IF \/ FLt(similarity_threshold, F(MinThreshold))
          \/ FGt(similarity_threshold, F(MaxThreshold))
       THEN /\ stdout' = Append(stdout, FailureResult(ThresholdError))
            /\ raised' = "SystemExit"
            /\ pc' = "unwind"
       ELSE /\ pc' = "bootstrap"
            /\ UNCHANGED <<stdout, raised>>
    /\ UNCHANGED <<imported, argv, index_exists, index_at_start, index_written, top_k,
                   similarity_threshold, result, exit_code, searcher_calls,
                   completed, queries, notSearch>>

\* create_demo_index_if_missing, lines 169-204: saved tells whether
\* VectorIndexer built and saved the index; any exception is caught and
\* leaves no file.
create_demo_index_if_missing(saved) ==
    /\ index_exists' = (index_exists \/ saved)
    /\ index_written' = (~index_exists /\ saved)
    /\ searcher_calls' =
          IF index_exists THEN searcher_calls
          ELSE Append(searcher_calls, Call("create_index"))

\* main, lines 251-253.
MainBootstrap ==
    /\ pc = "bootstrap"
    /\ IF ~index_exists
       THEN \E saved \in BOOLEAN : create_demo_index_if_missing(saved)
       ELSE UNCHANGED <<index_exists, index_written, searcher_calls>>
    /\ pc' = "parse_embedding"
    /\ UNCHANGED <<imported, argv, index_at_start, top_k, similarity_threshold, raised,
                   result, stdout, exit_code, completed, queries, notSearch>>

\* search_similar_tracks, lines 54-67 (and the outer handler, 145-154, for
\* what json.loads and np.array raise besides ValueError).
SearchParseEmbedding ==
    /\ pc = "parse_embedding"
    /\ LET o == json_loads_np_array(argv.embedding)
       IN  IF o = "ok"
           THEN pc' = "check_index" /\ UNCHANGED result
           ELSE /\ pc' = "output"
                /\ result' =
                      IF o \in {"JSONDecodeError", "ValueError"}
                      THEN <<FailureResult(InvalidEmbedding)>>
                      ELSE <<FailureResult(UnexpectedSearchError)>>
    /\ UNCHANGED <<imported, argv, index_exists, index_at_start, index_written, top_k,
                   similarity_threshold, raised, stdout, exit_code,
                   searcher_calls, completed, queries, notSearch>>

\* search_similar_tracks, lines 69-79, without the existence check.
SearchCheckIndex_unchecked ==
    /\ pc = "check_index"
    /\ pc' = "load_index"
    /\ UNCHANGED <<imported, argv, index_exists, index_at_start, index_written, top_k,
                   similarity_threshold, raised, result, stdout, exit_code,
                   searcher_calls, completed, queries, notSearch>>

\* search_similar_tracks, lines 69-79.
SearchCheckIndex ==
    /\ pc = "check_index"
    /\ IF ~index_exists
       THEN pc' = "output" /\ result' = <<FailureResult(IndexNotFound)>>
       ELSE pc' = "load_index" /\ UNCHANGED result
    /\ UNCHANGED <<imported, argv, index_exists, index_at_start, index_written, top_k,
                   similarity_threshold, raised, stdout, exit_code,
                   searcher_calls, completed, queries, notSearch>>

\* search_similar_tracks, lines 81-94.
SearchLoadIndex ==
    /\ pc = "load_index"
    /\ searcher_calls' = Append(searcher_calls, Call("SimilaritySearcher"))
    /\ \E loaded \in BOOLEAN :
          IF loaded
          THEN pc' = "search" /\ UNCHANGED result
          ELSE pc' = "output" /\ result' = <<FailureResult(LoadFailed)>>
    /\ UNCHANGED <<imported, argv, index_exists, index_at_start, index_written, top_k,
                   similarity_threshold, raised, stdout, exit_code, completed,
                   queries, notSearch>>

\* The dict of lines 124-132.
SuccessResult(found, analysis, threshold) ==
    [success |-> TRUE, error |-> NoError,
     similarTracks |-> [i \in 1..Len(found) |-> similar_track(found[i], threshold)],
     copyrightRisk |-> IF analysis.has_keys THEN analysis.overall_risk ELSE "LOW",
     riskScore |-> IF analysis.has_keys THEN analysis.risk_score ELSE F(0),
     totalMatches |-> Len(found),
     processingTimeMs |-> 0]

\* search_similar_tracks, lines 96-143.
SearchPerform ==
    /\ pc = "search"
    /\ searcher_calls' = Append(searcher_calls, Call("search_similar"))
    /\ \E found \in SearchOutcomes(top_k), analysis \in AnalysisOutcomes :
          result' =
             IF \/ found.raises
                \/ analysis.raises
                \/ \E i \in 1..Len(found.results) : ~found.results[i].good
                \/ ~analysis.good
             THEN <<FailureResult(SearchFailed)>>
             ELSE <<SuccessResult(found.results, analysis, similarity_threshold)>>
    /\ pc' = "output"
    /\ UNCHANGED <<imported, argv, index_exists, index_at_start, index_written, top_k,
                   similarity_threshold, raised, stdout, exit_code, completed,
                   queries, notSearch>>

\* What a successful result reports: the matches and the overall risk.
Report(r) ==
    [similarTracks |-> r.similarTracks, copyrightRisk |-> r.copyrightRisk,
     riskScore |-> r.riskScore]

\* main, lines 258-259: print(json.dumps(result)).
MainOutputResult ==
    /\ pc = "output"
    /\ IF Serializable(result[1])
       THEN /\ stdout' = Append(stdout, result[1])
            /\ completed' =
                  IF result[1].success
                  THEN completed \cup {Report(result[1])}
                  ELSE completed
            /\ pc' = "exited"
            /\ exit_code' = "0"
            /\ UNCHANGED raised
       ELSE /\ raised' = "TypeError"
            /\ pc' = "unwind"
            /\ UNCHANGED <<stdout, completed, exit_code>>
    /\ UNCHANGED <<imported, argv, index_exists, index_at_start, index_written, top_k,
                   similarity_threshold, result, searcher_calls, queries,
                   notSearch>>

\* main, lines 261-273: the handler prints the error result and exits 1.
MainExcept ==
    /\ pc = "unwind"
    /\ Catches(raised)
    /\ stdout' = Append(stdout, FailureResult(UnexpectedError))
    /\ raised' = "SystemExit"
    /\ pc' = "exited"
    /\ exit_code' = "1"
    /\ UNCHANGED <<imported, argv, index_exists, index_at_start, index_written, top_k,
                   similarity_threshold, result, searcher_calls, completed,
                   queries, notSearch>>

\* sys.exit(1) inside the try block: SystemExit is no Exception, passes the
\* handler and ends the process with status 1.
MainSystemExit ==
    /\ pc = "unwind"
    /\ ~Catches(raised)
    /\ pc' = "exited"
    /\ exit_code' = "1"
    /\ UNCHANGED <<imported, argv, index_exists, index_at_start, index_written, top_k,
                   similarity_threshold, raised, result, stdout,
                   searcher_calls, completed, queries, notSearch>>

\* The backend runs the script again for the next query; the index file
\* stays as the last run left it.
NextQuery ==
    /\ pc = "exited"
    /\ queries < MaxQueries
    /\ queries' = queries + 1
    /\ imported' = FALSE
    /\ argv' \in Argvs
    /\ index_at_start' = index_exists
    /\ index_written' = FALSE
    /\ pc' = "import"
    /\ top_k' = 0
    /\ similarity_threshold' = F(0)
    /\ raised' = "none"
    /\ result' = <<>>
    /\ stdout' = <<>>
    /\ exit_code' = "running"
    /\ searcher_calls' = <<>>
    /\ UNCHANGED <<index_exists, completed, notSearch>>

Next ==
    \/ ImportModules
    \/ MainCheckArgs
    \/ MainParseArgs
    \/ MainValidateTopK
    \/ MainValidateThreshold
    \/ MainBootstrap
    \/ SearchParseEmbedding
    \/ SearchCheckIndex
    \/ SearchLoadIndex
    \/ SearchPerform
    \/ MainOutputResult
    \/ MainExcept
    \/ MainSystemExit

RepeatNext == Next \/ NextQuery

SearchIdle ==
    /\ imported = FALSE
    /\ argv = [argc |-> 1, embedding |-> "", top_k |-> Absent,
               threshold |-> Absent]
    /\ index_exists = FALSE
    /\ index_at_start = FALSE
    /\ index_written = FALSE
    /\ pc = "idle"
    /\ top_k = 0
    /\ similarity_threshold = F(0)
    /\ raised = "none"
    /\ result = <<>>
    /\ stdout = <<>>
    /\ exit_code = "running"
    /\ searcher_calls = <<>>
    /\ completed = {}
    /\ queries = 0

(***************************************************************************)
(* embedding_wrapper.py: main and extract_embeddings, step by step         *)
(***************************************************************************)
EmbMinArgc == 2

DefaultSampleRate == 22050

valid_models == {"spectrogram", "openl3", "audioclip"}

ModelArgs == valid_models \cup {"vggish"}

EmbArgvs ==
    {[argc |-> n, model |-> ""] : n \in 1..EmbMinArgc}
    \cup {[argc |-> EmbMinArgc + 1, model |-> m] : m \in ModelArgs}

\* What the music-embeddings module and librosa do with the file: chosen by
\* the environment.
EmbEnvs ==
    [imports : {"ok", "ImportError"},
     validate : {"True", "False", "raises"},
     load : {"ok", "raises"},
     constructor : {"ok", "raises"},
     extract : {"ndarray", "other", "raises"}]

EmbUsageError == "Usage: python embedding_wrapper.py <audio_file_path> [model_name]"

InvalidModel == "Invalid model name"

AudioNotFound == "Audio file not found"

InvalidAudio == "Invalid audio file format"

ExtractionError == "Error extracting embeddings"

EmbImportFailed == "Failed to import required modules"

\* The dict every failure path of the embedding wrapper builds.
EmbFailureResult(error, model) ==
    [success |-> FALSE, error |-> error, embeddings |-> <<>>, shape |-> <<>>,
     model |-> model, duration |-> 0, sample_rate |-> 0]

EmbStart ==
    /\ e_argv \in EmbArgvs
    /\ e_file_exists \in BOOLEAN
    /\ e_env \in EmbEnvs
    /\ e_pc = "import"
    /\ e_model_name = ""
    /\ e_duration = 0
    /\ e_sr = 0
    /\ e_result = <<>>
    /\ e_stdout = <<>>
    /\ e_exit_code = "running"
    /\ e_calls = <<>>

EmbIdle ==
    /\ e_argv = [argc |-> 1, model |-> ""]
    /\ e_file_exists = FALSE
    /\ e_env = [imports |-> "ok", validate |-> "True", load |-> "ok",
                constructor |-> "ok", extract |-> "ndarray"]
    /\ e_pc = "idle"
    /\ e_model_name = ""
    /\ e_duration = 0
    /\ e_sr = 0
    /\ e_result = <<>>
    /\ e_stdout = <<>>
    /\ e_exit_code = "running"
    /\ e_calls = <<>>

\* Lines 25-42: the imports of the music-embeddings module, numpy and
\* librosa; on ImportError the script prints a failure result and exits.
EmbImportModules ==
    /\ e_pc = "import"
    /\ IF e_env.imports = "ok"
       THEN /\ e_pc' = "main"
            /\ UNCHANGED <<e_stdout, e_exit_code>>
       ELSE /\ e_stdout' = Append(e_stdout, EmbFailureResult(EmbImportFailed, ""))
            /\ e_pc' = "exited"
            /\ e_exit_code' = "1"
    /\ UNCHANGED <<e_argv, e_file_exists, e_env, e_model_name, e_duration,
                   e_sr, e_result, e_calls, rvars, svars>>

\* main, lines 130-140: the usage check; sys.exit(1) passes the handler.
EmbCheckArgs ==
    /\ e_pc = "main"
    /\ IF e_argv.argc < EmbMinArgc
       THEN /\ e_stdout' = Append(e_stdout, EmbFailureResult(EmbUsageError, ""))
            /\ e_pc' = "exited"
            /\ e_exit_code' = "1"
       ELSE /\ e_pc' = "validate_model"
            /\ UNCHANGED <<e_stdout, e_exit_code>>
    /\ UNCHANGED <<e_argv, e_file_exists, e_env, e_model_name, e_duration,
                   e_sr, e_result, e_calls, rvars, svars>>

\* main, lines 142-157.
EmbValidateModel ==
    /\ e_pc = "validate_model"
    /\ LET model_name == IF e_argv.argc > EmbMinArgc THEN e_argv.model
                         ELSE "spectrogram"
       IN  /\ e_model_name' = model_name
           /\ IF model_name \notin valid_models
              THEN /\ e_stdout' =
                         Append(e_stdout, EmbFailureResult(InvalidModel, model_name))
                   /\ e_pc' = "exited"
                   /\ e_exit_code' = "1"
              ELSE /\ e_pc' = "check_file"
                   /\ UNCHANGED <<e_stdout, e_exit_code>>
    /\ UNCHANGED <<e_argv, e_file_exists, e_env, e_duration, e_sr, e_result,
                   e_calls, rvars, svars>>

\* extract_embeddings, lines 56-66.
EmbCheckFile ==
    /\ e_pc = "check_file"
    /\ IF ~e_file_exists
       THEN /\ e_result' = <<EmbFailureResult(AudioNotFound, e_model_name)>>
            /\ e_pc' = "output"
       ELSE /\ e_pc' = "validate_file"
            /\ UNCHANGED e_result
    /\ UNCHANGED <<e_argv, e_file_exists, e_env, e_model_name, e_duration,
                   e_sr, e_stdout, e_exit_code, e_calls, rvars, svars>>

\* extract_embeddings, lines 68-78, going on whatever validate_audio_file
\* returns.
EmbValidateFile_ignored ==
    /\ e_pc = "validate_file"
    /\ e_calls' = Append(e_calls, "validate_audio_file")
    /\ IF e_env.validate = "raises"
       THEN /\ e_result' = <<EmbFailureResult(ExtractionError, e_model_name)>>
            /\ e_pc' = "output"
       ELSE /\ e_pc' = "load_metadata"
            /\ UNCHANGED e_result
    /\ UNCHANGED <<e_argv, e_file_exists, e_env, e_model_name, e_duration,
                   e_sr, e_stdout, e_exit_code, rvars, svars>>

\* extract_embeddings, lines 68-78 (and the handler, 116-125, when
\* validate_audio_file raises).
EmbValidateFile ==
    /\ e_pc = "validate_file"
    /\ e_calls' = Append(e_calls, "validate_audio_file")
    /\ IF e_env.validate = "True"
       THEN /\ e_pc' = "load_metadata"
            /\ UNCHANGED e_result
       ELSE /\ e_result' =
                  IF e_env.validate = "False"
                  THEN <<EmbFailureResult(InvalidAudio, e_model_name)>>
                  ELSE <<EmbFailureResult(ExtractionError, e_model_name)>>
            /\ e_pc' = "output"
    /\ UNCHANGED <<e_argv, e_file_exists, e_env, e_model_name, e_duration,
                   e_sr, e_stdout, e_exit_code, rvars, svars>>

\* extract_embeddings, lines 80-86: a file of 30 s at 44100 Hz, or the
\* defaults when librosa.load raises.
EmbLoadMetadata ==
    /\ e_pc = "load_metadata"
    /\ e_calls' = Append(e_calls, "librosa.load")
    /\ e_duration' = IF e_env.load = "ok" THEN 30 ELSE 0
    /\ e_sr' = IF e_env.load = "ok" THEN 44100 ELSE DefaultSampleRate
    /\ e_pc' = "extract"
    /\ UNCHANGED <<e_argv, e_file_exists, e_env, e_model_name, e_result,
                   e_stdout, e_exit_code, rvars, svars>>

\* extract_embeddings, lines 88-125.
EmbExtract ==
    /\ e_pc = "extract"
    /\ e_calls' =
          IF e_env.constructor = "ok"
          THEN e_calls \o <<"AudioEmbeddingExtractor", "extract_embeddings">>
          ELSE Append(e_calls, "AudioEmbeddingExtractor")
    /\ e_result' =
          IF e_env.constructor = "raises" \/ e_env.extract = "raises"
          THEN <<EmbFailureResult(ExtractionError, e_model_name)>>
          ELSE <<[success |-> TRUE, error |-> NoError,
                  embeddings |-> IF e_env.extract = "ndarray"
                                 THEN <<<<1, 2>>>> ELSE <<>>,
                  shape |-> IF e_env.extract = "ndarray" THEN <<1, 2>> ELSE <<>>,
                  model |-> e_model_name, duration |-> e_duration,
                  sample_rate |-> e_sr]>>
    /\ e_pc' = "output"
    /\ UNCHANGED <<e_argv, e_file_exists, e_env, e_model_name, e_duration,
                   e_sr, e_stdout, e_exit_code, rvars, svars>>

\* main, lines 162-163: every value of the result is a JSON type.
EmbOutputResult ==
    /\ e_pc = "output"
    /\ e_stdout' = Append(e_stdout, e_result[1])
    /\ e_pc' = "exited"
    /\ e_exit_code' = "0"
    /\ UNCHANGED <<e_argv, e_file_exists, e_env, e_model_name, e_duration,
                   e_sr, e_result, e_calls, rvars, svars>>

EmbNext ==
    \/ EmbImportModules
    \/ EmbCheckArgs
    \/ EmbValidateModel
    \/ EmbCheckFile
    \/ EmbValidateFile
    \/ EmbLoadMetadata
    \/ EmbExtract
    \/ EmbOutputResult

EmbInit == EmbStart /\ SearchIdle /\ RiskIdle

\* One run of embedding_wrapper.py.
EmbSpec == EmbInit /\ [][EmbNext]_vars

Init == SearchStart /\ RiskIdle /\ EmbIdle

RiskInit == RiskStart /\ SearchIdle /\ EmbIdle

\* One query.
Spec == Init /\ [][Next]_vars

\* One query; the interpreter runs the script to its end.
FairSpec == Spec /\ WF_vars(Next)

\* A sequence of queries against the same index path.
RepeatSpec == Init /\ [][RepeatNext]_vars

\* calculate_track_risk on a pair of scores.
RiskSpec == RiskInit /\ [][RiskNext]_vars

(***************************************************************************)
(* Properties                                                              *)
(***************************************************************************)

\* C1: for every similarity score and every threshold in [0, 1],
\* calculate_track_risk returns the level of the first band that matches,
\* top-down: VERY_HIGH from 0.95, HIGH from 0.85, MEDIUM from the threshold,
\* LOW from 0.5, VERY_LOW below; with threshold 0.8 the scores 0.96, 0.87,
\* 0.81, 0.6 and 0.3 give VERY_HIGH, HIGH, MEDIUM, LOW and VERY_LOW.
C1_TopDownBands ==
    (r_cur.set /\ ~r_cur.similarityScore.nan) =>
        LET s == r_cur.similarityScore.v
            t == r_threshold.v
            l == r_cur.copyrightRisk
        IN  /\ (l = "VERY_HIGH") <=> (s >= 95)
            /\ (l = "HIGH") <=> (s < 95 /\ s >= 85)
            /\ (l = "MEDIUM") <=> (s < 85 /\ s >= t)
            /\ (l = "LOW") <=> (s < 85 /\ s < t /\ s >= 50)
            /\ (l = "VERY_LOW") <=> (s < 85 /\ s < t /\ s < 50)
            /\ (t = 80 /\ s = 96) => l = "VERY_HIGH"
            /\ (t = 80 /\ s = 87) => l = "HIGH"
            /\ (t = 80 /\ s = 81) => l = "MEDIUM"
            /\ (t = 80 /\ s = 60) => l = "LOW"
            /\ (t = 80 /\ s = 30) => l = "VERY_LOW"

\* Threshold 0.8: 0.81 was classified MEDIUM and then 0.6 LOW.
C1_Witness ==
    /\ r_threshold = F(80)
    /\ r_prev = [set |-> TRUE, similarityScore |-> F(81), copyrightRisk |-> "MEDIUM"]
    /\ r_cur = [set |-> TRUE, similarityScore |-> F(60), copyrightRisk |-> "LOW"]

\* C2: for a fixed threshold in [0, 1], of two scores the greater never gets
\* the lower level in the order VERY_LOW < LOW < MEDIUM < HIGH < VERY_HIGH.
C2_Monotone ==
    (r_prev.set /\ r_cur.set /\ ~r_prev.similarityScore.nan
        /\ ~r_cur.similarityScore.nan) =>
        /\ (r_prev.similarityScore.v <= r_cur.similarityScore.v) =>
              Rank(r_prev.copyrightRisk) <= Rank(r_cur.copyrightRisk)
        /\ (r_cur.similarityScore.v <= r_prev.similarityScore.v) =>
              Rank(r_cur.copyrightRisk) <= Rank(r_prev.copyrightRisk)

\* Threshold 0.9, above 0.85: 0.86 is HIGH (not MEDIUM), and 0.92 is HIGH.
C2_Witness ==
    /\ r_threshold = F(90)
    /\ r_prev = [set |-> TRUE, similarityScore |-> F(86), copyrightRisk |-> "HIGH"]
    /\ r_cur = [set |-> TRUE, similarityScore |-> F(92), copyrightRisk |-> "HIGH"]

\* The zero-value shape of a failed result.
Canonical(r) ==
    /\ ~r.success
    /\ r.similarTracks = <<>>
    /\ r.copyrightRisk = "UNKNOWN"
    /\ r.riskScore = F(0)
    /\ r.totalMatches = 0
    /\ r.error # NoError

\* C3: every failed result, returned by search_similar_tracks or printed by
\* main, has no matches, risk UNKNOWN, risk score 0.0, totalMatches 0 and
\* an error text.
C3_FailedResultsCanonical ==
    /\ \A i \in 1..Len(result) : ~result[i].success => Canonical(result[i])
    /\ \A i \in 1..Len(stdout) : ~stdout[i].success => Canonical(stdout[i])

\* A search that found matches, whose result could not be serialized: the
\* failure printed carries none of them.
C3_Witness ==
    /\ pc = "exited"
    /\ Len(result) = 1
    /\ result[1].success
    /\ result[1].totalMatches > 0
    /\ stdout = <<FailureResult(UnexpectedError)>>

\* main ran, and read a command line whose numbers parse.
ArgsParse ==
    /\ imported
    /\ argv.argc >= MinArgc
    /\ argv.argc > MinArgc => argv.top_k.kind = "int"
    /\ argv.argc > MinArgc + 1 => argv.threshold.kind \in {"num", "int", "nan"}

GivenTopK == IF argv.argc > MinArgc THEN argv.top_k.v ELSE 10

GivenThreshold ==
    IF argv.argc > MinArgc + 1 THEN PyFloat(argv.threshold).v ELSE F(80)

TopKOutOfRange == GivenTopK < 1 \/ GivenTopK > 100

ThresholdBelowOrAbove ==
    ~GivenThreshold.nan /\ (GivenThreshold.v < 0 \/ GivenThreshold.v > 100)

ThresholdInRange ==
    ~GivenThreshold.nan /\ GivenThreshold.v >= 0 /\ GivenThreshold.v <= 100

EmbeddingMalformed == json_loads_np_array(argv.embedding) # "ok"

EmbeddingErrors == {InvalidEmbedding, UnexpectedSearchError}

ValidationErrors ==
    {TopKError, ThresholdError, InvalidEmbedding, UnexpectedSearchError,
     IndexNotFound}

\* C4 as stated: the error reported is that of the first failing step in
\* the order embedding, top_k, similarity_threshold, index path.
C4_SpecOrder ==
    (pc = "exited" /\ ArgsParse) =>
        /\ Len(stdout) = 1
        /\ IF EmbeddingMalformed THEN stdout[1].error \in EmbeddingErrors
           ELSE IF TopKOutOfRange THEN stdout[1].error = TopKError
           ELSE IF ThresholdBelowOrAbove THEN stdout[1].error = ThresholdError
           ELSE IF ~index_exists THEN stdout[1].error = IndexNotFound
           ELSE stdout[1].error \notin ValidationErrors

\* C4 amended: the order is top_k, similarity_threshold (below 0.0 or above
\* 1.0), embedding, index path.
C4_CodeOrder ==
    (pc = "exited" /\ ArgsParse) =>
        /\ Len(stdout) = 1
        /\ IF TopKOutOfRange THEN stdout[1].error = TopKError
           ELSE IF ThresholdBelowOrAbove THEN stdout[1].error = ThresholdError
           ELSE IF EmbeddingMalformed THEN stdout[1].error \in EmbeddingErrors
           ELSE IF ~index_exists THEN stdout[1].error = IndexNotFound
           ELSE stdout[1].error \notin ValidationErrors

\* A malformed embedding together with top_k = 0: the top_k range is
\* reported.
C4_Witness ==
    /\ pc = "exited"
    /\ argv.embedding = "[0.1,"
    /\ argv.top_k = IntText(0)
    /\ stdout = <<FailureResult(TopKError)>>

\* C5: whenever the index is loaded or searched, 1 <= top_k <= 100 and
\* 0.0 <= similarity_threshold <= 1.0.
C5_SearcherInRange ==
    \A i \in 1..Len(searcher_calls) :
        searcher_calls[i].op \in {"SimilaritySearcher", "search_similar"} =>
            /\ searcher_calls[i].top_k >= 1
            /\ searcher_calls[i].top_k <= 100
            /\ FGe(searcher_calls[i].similarity_threshold, F(0))
            /\ FGe(F(100), searcher_calls[i].similarity_threshold)

\* A query whose arguments all pass for valid.
ValidQuery ==
    /\ ArgsParse
    /\ ~TopKOutOfRange
    /\ ThresholdInRange
    /\ ~EmbeddingMalformed

\* C6 as stated: a valid query run through main against an index path at
\* which no file exists ends with the not-found failure result.
C6_MissingIndexNotFound ==
    (pc = "exited" /\ ValidQuery /\ ~index_at_start) =>
        stdout = <<FailureResult(IndexNotFound)>>

\* C6 amended: search_similar_tracks answers a parseable embedding and a
\* missing index file with the not-found failure result; a valid query run
\* through main against a missing index path prints exactly one result,
\* and that result is the not-found failure (printed by the normal path,
\* exit status 0) exactly when create_demo_index_if_missing did not create
\* the file.
C6_NotFoundUnlessBootstrapped ==
    /\ (pc = "output" /\ ~EmbeddingMalformed /\ ~index_exists) =>
          result = <<FailureResult(IndexNotFound)>>
    /\ (pc = "exited" /\ ValidQuery /\ ~index_at_start) =>
          /\ Len(stdout) = 1
          /\ (stdout = <<FailureResult(IndexNotFound)>>) <=> ~index_written
          /\ ~index_written => exit_code = "0"

\* The index was missing, the bootstrap failed, not-found was printed.
C6_Witness ==
    /\ pc = "exited"
    /\ ValidQuery
    /\ ~index_at_start
    /\ ~index_written
    /\ Len(searcher_calls) = 1
    /\ searcher_calls[1].op = "create_index"
    /\ stdout = <<FailureResult(IndexNotFound)>>

\* C7: every run of main ends having printed exactly one result object, and
\* search_similar_tracks hands main a result without raising.
C7_OneResultEveryRun ==
    /\ <>[](pc = "exited" /\ Len(stdout) = 1 /\ exit_code \in {"0", "1"})
    /\ [](pc = "output" => (Len(result) = 1 /\ raised = "none"))

\* A top_k that is no number: int() raises, the handler prints the result.
C7_Witness ==
    /\ pc = "exited"
    /\ argv.argc > MinArgc
    /\ argv.top_k = Text
    /\ exit_code = "1"
    /\ stdout = <<FailureResult(UnexpectedError)>>

\* C8: a run that fails for a malformed embedding, an out-of-range top_k or
\* an out-of-range threshold writes no index file.
C8_FailedValidationWritesNothing ==
    (pc = "exited" /\ ArgsParse
        /\ (EmbeddingMalformed \/ TopKOutOfRange \/ ThresholdBelowOrAbove)) =>
        ~index_written

\* C9: two successful queries with equal matches report the same overall
\* risk level and risk score.
C9_RiskFunctionOfMatches ==
    \A a \in completed, b \in completed :
        a.similarTracks = b.similarTracks =>
            /\ a.copyrightRisk = b.copyrightRisk
            /\ a.riskScore = b.riskScore

EmbCalled(name) == \E i \in 1..Len(e_calls) : e_calls[i] = name

\* C10: the extractor is built and invoked only for a valid model name, an
\* existing file and a file validate_audio_file accepted, in this order;
\* when a guard fails or the extractor raises, the result printed has
\* success = false, no embeddings, no shape, duration 0 and sample rate 0.
C10_GuardsBeforeExtractor ==
    /\ EmbCalled("validate_audio_file") =>
          (e_model_name \in {"spectrogram", "openl3", "audioclip"} /\ e_file_exists)
    /\ (EmbCalled("AudioEmbeddingExtractor") \/ EmbCalled("extract_embeddings")) =>
          /\ e_model_name \in {"spectrogram", "openl3", "audioclip"}
          /\ e_file_exists
          /\ e_env.validate = "True"
          /\ e_calls[1] = "validate_audio_file"
    /\ (e_pc = "exited" /\ e_argv.argc >= 2
          /\ \/ (e_argv.argc > 2 /\ e_argv.model \notin {"spectrogram", "openl3", "audioclip"})
             \/ ~e_file_exists
             \/ e_env.validate # "True"
             \/ e_env.constructor = "raises"
             \/ e_env.extract = "raises") =>
          /\ Len(e_stdout) = 1
          /\ ~e_stdout[1].success
          /\ e_stdout[1].embeddings = <<>>
          /\ e_stdout[1].shape = <<>>
          /\ e_stdout[1].duration = 0
          /\ e_stdout[1].sample_rate = 0
          /\ e_stdout[1].error # NoError

\* Every guard passed, the metadata was read, and the extractor raised.
C10_Witness ==
    /\ e_pc = "exited"
    /\ e_env.extract = "raises"
    /\ e_duration = 30
    /\ EmbCalled("extract_embeddings")
    /\ e_stdout = <<EmbFailureResult(ExtractionError, e_model_name)>>

====
